---- MODULE Spec2Model ----
(***************************************************************************)
(* State-machine model of py21cmmc/_21cmfast/wrapper.py: the parameter     *)
(* structures CosmoParams and UserParams, the InitialConditions output     *)
(* structure, and the driver initial_conditions with its file-backed box   *)
(* store.                                                                  *)
(*                                                                         *)
(* StructWithDefaults and OutputStruct (module _utils) and the native      *)
(* library are imported by wrapper.py; their behaviour (construction from  *)
(* _defaults_, read, write, the call into lib) is modelled from the        *)
(* repository's specification.                                             *)
(***************************************************************************)
EXTENDS Integers, FiniteSets

(***************************************************************************)
(* Bounds of the model.                                                    *)
(***************************************************************************)
\* exclusive upper end of the seed range; stands for the 1e12 of randint(1, 1e12)
SeedHigh == 3
\* how many random draws per instance the model follows
MaxDraws == 2
\* UserParams values explored by the parameter specification: 0..MaxHiiDim, 0..MaxDim
MaxHiiDim == 3
MaxDim == 3

(***************************************************************************)
(* Program constants and value domains.                                    *)
(***************************************************************************)
\* Python's None: the default of RANDOM_SEED and of DIM
None == -1
\* _defaults_ of UserParams
Default_HII_DIM == 100
\* the factor of the default DIM
DimFactor == 4
\* inclusive lower end of randint(1, 1e12)
SeedLow == 1

\* Python truthiness of an optional integer: "not x" holds for None and for 0
Falsy(v) == v = None \/ v = 0

\* a randint whose range starts at 0
RandomSeeds_fromZero == 0 .. (SeedHigh - 1)

\* the values np.random.randint(1, 1e12) can return
RandomSeeds == SeedLow .. (SeedHigh - 1)
\* the values a caller can pass as RANDOM_SEED
SeedArgs == {None} \cup (0 .. (SeedHigh - 1))

\* the two CosmoParams instances: 0 is the default argument of
\* initial_conditions, created once when the function is defined
DefaultCosmo == 0
CosmoIds == {0, 1}

\* a UserParams instance: its HII_DIM and its hidden _DIM
UserParamsOf(h, d) == [HII_DIM |-> h, DIM_ |-> d]
DefaultUser == UserParamsOf(Default_HII_DIM, None)
\* the UserParams values the driver is called with
UserSet == {DefaultUser, UserParamsOf(50, None)}
\* the UserParams values of the parameter specification
HiiDimArgs == (0 .. MaxHiiDim) \cup {50, Default_HII_DIM}
DimArgs == {None} \cup (0 .. MaxDim) \cup {200, 400}

VARIABLES
    priv_RANDOM_SEED,   \* [CosmoIds -> SeedArgs]: each instance's _RANDOM_SEED
    supplied,           \* [CosmoIds -> SeedArgs]: the RANDOM_SEED given at construction
    lastAccess,         \* the latest evaluation of the RANDOM_SEED property
    draws,              \* [CosmoIds -> Nat]: changes of _RANDOM_SEED made by the property
    store,              \* the box store: [Locations -> {"absent","ok","corrupt"}]
    store0,             \* the store when the current call began
    call,               \* the current (or latest) initial_conditions call
    uparams,            \* a UserParams instance
    DIM_read,           \* what its DIM property last returned (None: not read)
    hires_density       \* length of the buffer _init_boxes allocated (None: not allocated)

vars == <<priv_RANDOM_SEED, supplied, lastAccess, draws, store, store0, call,
          uparams, DIM_read, hires_density>>

(***************************************************************************)
(* CosmoParams.RANDOM_SEED                                                 *)
(***************************************************************************)
\* a property that draws on every read
RANDOM_SEED_redrawn(s, r) == r

\* _RANDOM_SEED after the property ran, r being what randint returns:
\*   while not self._RANDOM_SEED: self._RANDOM_SEED = int(randint(1, 1e12))
RANDOM_SEED_after(s, r) == IF Falsy(s) THEN r ELSE s

(***************************************************************************)
(* UserParams.DIM, tot_fft_num_pixels and InitialConditions._init_boxes    *)
(***************************************************************************)
\* return self._DIM or 4 * self.HII_DIM
DIM(u) == IF Falsy(u.DIM_) THEN DimFactor * u.HII_DIM ELSE u.DIM_

\* a pixel count that squares DIM
tot_fft_num_pixels_squared(u) == DIM(u) * DIM(u)

\* return self.DIM**3
tot_fft_num_pixels(u) == DIM(u) * DIM(u) * DIM(u)

\* np.zeros(self.user_params.tot_fft_num_pixels): the length of hires_density
init_boxes(u) == tot_fft_num_pixels(u)

(***************************************************************************)
(* The box store and OutputStruct.read / OutputStruct.write                *)
(***************************************************************************)
\* a location of the store: the user parameters and the seed the boxes were
\* made with (the fingerprint of the parameter sets, taken without collisions)
Locations == UserSet \X RandomSeeds
EmptyStore == [l \in Locations |-> "absent"]
\* the stores a call can find on disk when the program starts
InitStores ==
    {EmptyStore} \cup
    {[EmptyStore EXCEPT ![l] = v] : l \in Locations, v \in {"ok", "corrupt"}}

\* the seeds of the stored entries read(direc, fname, match_seed) considers for
\* user parameters u and seed s: every entry of u, or with match_seed only
\* the entry of seed s
Candidates(st, u, s, match_seed) ==
    {k \in RandomSeeds : st[<<u, k>>] # "absent" /\ (match_seed => k = s)}

\* the first candidate, locations being scanned in increasing order
FirstCandidate(st, u, s, match_seed) ==
    CHOOSE k \in Candidates(st, u, s, match_seed) :
        \A j \in Candidates(st, u, s, match_seed) : k <= j

\* what read does when the storage layer itself works: "hit", or the error raised
Lookup(st, u, s, match_seed) ==
    IF Candidates(st, u, s, match_seed) = {} THEN "NotFoundError"
    ELSE IF st[<<u, FirstCandidate(st, u, s, match_seed)>>] = "corrupt"
         THEN "CorruptionError"
         ELSE "hit"

\* the exception read raises for what the lookup found.  The class of the
\* error raised for a corrupt record is open: it may derive from IOError
\* (an OSError of the file library) or not; asIOError says which
Raised(found, asIOError) ==
    IF found = "CorruptionError" /\ asIOError THEN "CorruptionIOError"
    ELSE found

\* the seed of the CosmoParams of the boxes after read, s being the seed
\* before and k the seed of the record read: a successful read adopts the
\* seed of the stored record
SeedAfterRead(s, k, hit) == IF hit THEN k ELSE s

\* the store after write stored the boxes of u made with seed s
Written(st, u, s) == [st EXCEPT ![<<u, s>>] = "ok"]

(***************************************************************************)
(* initial_conditions                                                      *)
(***************************************************************************)
\* a driver that consults the store whatever regenerate says
FirstStep_alwaysRead(regenerate) == "read"

\* "if not regenerate:" decides whether the store is consulted first
FirstStep(regenerate) == IF regenerate THEN "compute" ELSE "read"

\* "except IOError:" catches every IOError (OSError) raised in the try block
\* and no other exception class.  The error read raises when no boxes exist
\* is one of them: the handler is the only way from a miss to the line of
\* lib.ComputeInitialConditions.  A corruption error is caught when its class
\* derives from IOError and leaves the function when it does not.
ExceptIOError(e) == e \in {"NotFoundError", "IOError", "CorruptionIOError"}

\* boxes.read inside the try block: on success the next statement of the
\* block, the print, runs; an IOError is passed over, anything else leaves
\* the function
AfterRead(outcome) ==
    IF outcome = "hit" THEN "print"
    ELSE IF ExceptIOError(outcome) THEN "compute"
    ELSE "raised"

\* what print("Existing init_boxes found and read in.") can do: write the
\* line, raise an OSError of sys.stdout (IOError is OSError: a closed pipe, a
\* lost terminal), or raise another exception (ValueError on a closed file)
PrintOutcomes == {"ok", "IOError", "ValueError"}

\* the print inside the try block and the "return boxes" after it: return
\* when the line was written, pass on IOError, anything else leaves the
\* function
AfterPrint(out) ==
    IF out = "ok" THEN "returned"
    ELSE IF ExceptIOError(out) THEN "compute"
    ELSE "raised"

\* the third argument of boxes.read(direc, fname, match_seed)
ReadMatchSeed(match_seed) == match_seed

\* a driver without its "boxes.filled = True"
FilledAfterCompute_never(filled, ok) == filled

\* boxes.filled after the line of lib.ComputeInitialConditions, filled being
\* its value before: "boxes.filled = True" runs only when the call came back
FilledAfterCompute(filled, ok) == filled \/ ok

\* where the function goes after lib.ComputeInitialConditions
AfterCompute(ok, write) ==
    IF ~ok THEN "raised"
    ELSE IF write THEN "write"
    ELSE "returned"

\* where the function goes after boxes.write
AfterWrite(ok) == IF ok THEN "returned" ELSE "raised"

NoCall ==
    [pc |-> "none", user |-> DefaultUser, cosmo |-> DefaultCosmo,
     regenerate |-> FALSE, write |-> FALSE, match_seed |-> FALSE,
     filled |-> FALSE, hires_len |-> None, seed0 |-> None,
     nRead |-> 0, nCompute |-> 0, nWriteCall |-> 0, nWrite |-> 0,
     lookup |-> "none", readOutcome |-> "none", printed |-> "none",
     ioError |-> FALSE,
     computeFailed |-> FALSE, exc |-> "none", seedUsed |-> None,
     persisted |-> FALSE, afterPersist |-> FALSE]

\* the call that just returned missed, computed and wrote
Persisted ==
    /\ call.pc = "returned"
    /\ call.readOutcome = "NotFoundError"
    /\ call.nCompute = 1
    /\ call.write

\* what is remembered between two calls: whether the latest call persisted
\* its boxes, and for which parameters
Idle ==
    IF Persisted
    THEN [NoCall EXCEPT !.persisted = TRUE, !.user = call.user,
                        !.cosmo = call.cosmo, !.match_seed = call.match_seed]
    ELSE NoCall

\* initial_conditions(u, c, regenerate, write, match_seed=...) is entered:
\* boxes = InitialConditions(user_params, cosmo_params)
Call(u, c, regenerate, write, match_seed) ==
    /\ call.pc = "none"
    /\ call' = [NoCall EXCEPT
                  !.pc = FirstStep(regenerate),
                  !.user = u, !.cosmo = c,
                  !.regenerate = regenerate, !.write = write,
                  !.match_seed = match_seed,
                  !.hires_len = init_boxes(u),
                  !.seed0 = priv_RANDOM_SEED[c],
                  !.afterPersist = /\ call.persisted
                                   /\ call.user = u /\ call.cosmo = c
                                   /\ call.match_seed = match_seed]
    /\ store0' = store
    /\ UNCHANGED <<priv_RANDOM_SEED, supplied, lastAccess, draws, store,
                   uparams, DIM_read, hires_density>>

\* boxes.read(direc, fname, match_seed) inside the try block.  With
\* match_seed the seed takes part in the match, so the property is read;
\* fault: the storage layer fails with an IOError of its own; asIOError: the
\* class of the error of a corrupt record.  A hit fills the boxes and
\* adopts the stored seed, and the try block goes on to its print.
Read(r, fault, asIOError) ==
    /\ call.pc = "read"
    /\ LET c == call.cosmo
           ms == ReadMatchSeed(call.match_seed)
           s == IF ms THEN RANDOM_SEED_after(priv_RANDOM_SEED[c], r)
                ELSE priv_RANDOM_SEED[c]
           found == Lookup(store, call.user, s, ms)
           outcome == IF fault THEN "IOError" ELSE Raised(found, asIOError)
           hit == outcome = "hit"
       IN  /\ priv_RANDOM_SEED' =
                [priv_RANDOM_SEED EXCEPT
                   ![c] = SeedAfterRead(
                            s,
                            IF hit THEN FirstCandidate(store, call.user, s, ms)
                            ELSE s,
                            hit)]
           /\ call' = [call EXCEPT
                         !.pc = AfterRead(outcome),
                         !.nRead = @ + 1,
                         !.lookup = found,
                         !.readOutcome = outcome,
                         !.ioError = fault,
                         !.filled = hit,
                         !.exc = IF AfterRead(outcome) = "raised"
                                 THEN outcome ELSE "none"]
    /\ UNCHANGED <<supplied, lastAccess, draws, store, store0,
                   uparams, DIM_read, hires_density>>

\* print("Existing init_boxes found and read in.") inside the try block,
\* after a read that succeeded, and the "return boxes" behind it; out: what
\* the print does.  The boxes stay as the read left them.
PrintFound(out) ==
    /\ call.pc = "print"
    /\ call' = [call EXCEPT
                  !.pc = AfterPrint(out),
                  !.printed = out,
                  !.exc = IF AfterPrint(out) = "raised" THEN out ELSE "none"]
    /\ UNCHANGED <<priv_RANDOM_SEED, supplied, lastAccess, draws, store,
                   store0, uparams, DIM_read, hires_density>>

\* lib.ComputeInitialConditions(user_params(), cosmo_params(), boxes()) and
\* boxes.filled = True.  cosmo_params() builds the C struct from the fields,
\* the seed among them; ok: the native call came back.
Compute(r, ok) ==
    /\ call.pc = "compute"
    /\ LET c == call.cosmo
           s == RANDOM_SEED_after(priv_RANDOM_SEED[c], r)
       IN  /\ priv_RANDOM_SEED' = [priv_RANDOM_SEED EXCEPT ![c] = s]
           /\ call' = [call EXCEPT
                         !.pc = AfterCompute(ok, call.write),
                         !.nCompute = @ + 1,
                         !.seedUsed = s,
                         !.computeFailed = ~ok,
                         !.filled = FilledAfterCompute(call.filled, ok),
                         !.exc = IF AfterCompute(ok, call.write) = "raised"
                                 THEN "ComputeError" ELSE "none"]
    /\ UNCHANGED <<supplied, lastAccess, draws, store, store0,
                   uparams, DIM_read, hires_density>>

\* boxes.write(direc, fname); ok: the storage layer committed the record,
\* otherwise it raised an IOError and left the store as it was
Write(ok) ==
    /\ call.pc = "write"
    /\ store' = IF ok
                THEN Written(store, call.user, priv_RANDOM_SEED[call.cosmo])
                ELSE store
    /\ call' = [call EXCEPT
                  !.pc = AfterWrite(ok),
                  !.nWriteCall = @ + 1,
                  !.nWrite = IF ok THEN @ + 1 ELSE @,
                  !.ioError = @ \/ ~ok,
                  !.exc = IF ok THEN "none" ELSE "IOError"]
    /\ UNCHANGED <<priv_RANDOM_SEED, supplied, lastAccess, draws, store0,
                   uparams, DIM_read, hires_density>>

\* the function returns its boxes, or the exception leaves it: control is
\* back with the caller
Return ==
    /\ call.pc \in {"returned", "raised"}
    /\ call' = Idle
    /\ store0' = store
    /\ UNCHANGED <<priv_RANDOM_SEED, supplied, lastAccess, draws, store,
                   uparams, DIM_read, hires_density>>

\* the program starts: the default CosmoParams() of the signature exists with
\* its seed unset, the other instance was built with any RANDOM_SEED
Init ==
    /\ supplied \in {f \in [CosmoIds -> SeedArgs] : f[DefaultCosmo] = None}
    /\ priv_RANDOM_SEED = supplied
    /\ lastAccess = [inst |-> None, before |-> None, ret |-> None]
    /\ draws = [i \in CosmoIds |-> 0]
    /\ store \in InitStores
    /\ store0 = store
    /\ call = NoCall
    /\ uparams = DefaultUser
    /\ DIM_read = None
    /\ hires_density = None

Next ==
    \/ \E u \in UserSet, c \in CosmoIds, regenerate, write, match_seed \in BOOLEAN :
          Call(u, c, regenerate, write, match_seed)
    \/ \E r \in RandomSeeds, fault, asIOError \in BOOLEAN :
          Read(r, fault, asIOError)
    \/ \E out \in PrintOutcomes : PrintFound(out)
    \/ \E r \in RandomSeeds, ok \in BOOLEAN : Compute(r, ok)
    \/ \E ok \in BOOLEAN : Write(ok)
    \/ Return

Spec == Init /\ [][Next]_vars

(***************************************************************************)
(* CosmoParams on its own: instances built with any RANDOM_SEED, whose     *)
(* property is read again and again.                                       *)
(***************************************************************************)
InitSeed ==
    /\ supplied \in [CosmoIds -> SeedArgs]
    /\ priv_RANDOM_SEED = supplied
    /\ lastAccess = [inst |-> None, before |-> None, ret |-> None]
    /\ draws = [i \in CosmoIds |-> 0]
    /\ store = EmptyStore
    /\ store0 = store
    /\ call = NoCall
    /\ uparams = DefaultUser
    /\ DIM_read = None
    /\ hires_density = None

\* instance i's RANDOM_SEED property is read; r is what randint returns
AccessSeed(i, r) ==
    /\ draws[i] < MaxDraws
    /\ priv_RANDOM_SEED' =
         [priv_RANDOM_SEED EXCEPT ![i] = RANDOM_SEED_after(@, r)]
    /\ lastAccess' = [inst |-> i, before |-> priv_RANDOM_SEED[i],
                      ret |-> priv_RANDOM_SEED'[i]]
    /\ draws' = [draws EXCEPT
                   ![i] = IF priv_RANDOM_SEED'[i] # priv_RANDOM_SEED[i]
                          THEN @ + 1 ELSE @]
    /\ UNCHANGED <<supplied, store, store0, call, uparams, DIM_read,
                   hires_density>>

NextSeed == \E i \in CosmoIds, r \in RandomSeeds : AccessSeed(i, r)

SpecSeed == InitSeed /\ [][NextSeed]_vars

(***************************************************************************)
(* UserParams on its own: an instance built with any HII_DIM and DIM,      *)
(* whose DIM is read and whose boxes are allocated.                        *)
(***************************************************************************)
InitParams ==
    /\ uparams \in {UserParamsOf(h, d) : h \in HiiDimArgs, d \in DimArgs}
    /\ DIM_read = None
    /\ hires_density = None
    /\ supplied = [i \in CosmoIds |-> None]
    /\ priv_RANDOM_SEED = supplied
    /\ lastAccess = [inst |-> None, before |-> None, ret |-> None]
    /\ draws = [i \in CosmoIds |-> 0]
    /\ store = EmptyStore
    /\ store0 = store
    /\ call = NoCall

\* the DIM property is read
ReadDIM ==
    /\ DIM_read' = DIM(uparams)
    /\ UNCHANGED <<priv_RANDOM_SEED, supplied, lastAccess, draws, store,
                   store0, call, uparams, hires_density>>

\* InitialConditions._init_boxes allocates hires_density
InitBoxes ==
    /\ hires_density' = init_boxes(uparams)
    /\ UNCHANGED <<priv_RANDOM_SEED, supplied, lastAccess, draws, store,
                   store0, call, uparams, DIM_read>>

NextParams == ReadDIM \/ InitBoxes

SpecParams == InitParams /\ [][NextParams]_vars

(***************************************************************************)
(* Properties of initial_conditions (checked under Spec).                  *)
(***************************************************************************)
\* the call is past the line of lib.ComputeInitialConditions
PastCompute == call.pc \in {"write", "returned", "raised"}
\* the call consulted the store and the storage layer did not fail under it
ReadWorked == ~call.regenerate /\ call.nRead = 1 /\ call.readOutcome # "IOError"

\* the call is over: it returned or an exception left it
Over == call.pc \in {"returned", "raised"}

\* C1: when the store holds an entry matching the parameters of a call made
\* with regenerate=False (boxes.read finds and loads it), the call never
\* reaches lib.ComputeInitialConditions (it is called 0 times) and ends
\* returning the loaded, filled boxes.
C1_CacheHitAvoidsRecomputation ==
    (ReadWorked /\ call.lookup = "hit") =>
        /\ call.pc \notin {"compute", "write"}
        /\ call.nCompute = 0
        /\ call.filled
        /\ Over => (call.pc = "returned" /\ call.exc = "none")

\* C2: a call with regenerate=False whose parameters have no matching stored
\* entry calls the computation exactly once; and when such a call was made with
\* write=True and returned, the next call for the same parameters with
\* regenerate=False is a hit that never reaches the computation (0 calls)
\* and returns.
C2_CacheMissComputesOnceAndPersists ==
    /\ call.nCompute <= 1
    /\ (call.readOutcome = "NotFoundError" /\ PastCompute) => call.nCompute = 1
    /\ (call.afterPersist /\ ReadWorked) =>
          /\ call.readOutcome = "hit"
          /\ call.pc \notin {"compute", "write"}
          /\ call.nCompute = 0
          /\ Over => call.pc = "returned"

\* C3: a call with regenerate=True never reads the store and, once past the
\* native call, has called the computation exactly once, also when the store
\* holds a matching entry.
C3_ForcedRegeneration ==
    call.regenerate =>
        /\ call.nRead = 0
        /\ call.readOutcome = "none"
        /\ PastCompute => call.nCompute = 1

C3_Witness ==
    /\ call.regenerate
    /\ call.pc = "returned"
    /\ call.nCompute = 1
    /\ Lookup(store0, call.user, call.seed0, call.match_seed) = "hit"

\* the store holds boxes of the call's user parameters made with one seed s1
\* only, and the call's CosmoParams carries another, concrete seed s2
SeedMismatch ==
    /\ ReadWorked
    /\ ~Falsy(call.seed0)
    /\ \E s1 \in RandomSeeds :
          /\ s1 # call.seed0
          /\ store0[<<call.user, s1>>] = "ok"
          /\ \A k \in RandomSeeds \ {s1} : store0[<<call.user, k>>] = "absent"

\* C4: with boxes stored for parameters P and seed s1, a request for the same
\* P with another seed s2 is a hit that returns without reaching the
\* computation when match_seed=False, and a miss (the computation is called)
\* when match_seed=True.
C4_SeedMatchToggle ==
    SeedMismatch =>
        IF call.match_seed
        THEN /\ call.readOutcome = "NotFoundError"
             /\ call.pc # "read"
             /\ PastCompute => call.nCompute = 1
        ELSE /\ call.readOutcome = "hit"
             /\ call.pc \notin {"compute", "write"}
             /\ call.nCompute = 0
             /\ Over => call.pc = "returned"

\* C5: an IOError of the storage layer (a failing read or write, not a miss)
\* raised during a call always reaches the caller: the call ends raising it.
C5_StorageErrorsPropagate ==
    call.ioError => (call.pc = "raised" /\ call.exc = "IOError")

\* C7: when the computation raises, the call ends raising that error, the
\* computation was called exactly once, the boxes are not in the filled
\* state and the store is as it was when the call began.
C7_ComputationFailureIsFatal ==
    call.computeFailed =>
        /\ call.pc = "raised"
        /\ call.exc = "ComputeError"
        /\ call.nCompute = 1
        /\ ~call.filled
        /\ call.nWrite = 0
        /\ store = store0

(***************************************************************************)
(* Properties of CosmoParams.RANDOM_SEED (checked under SpecSeed).         *)
(***************************************************************************)
\* C8: on an instance whose RANDOM_SEED was left unset, the first read of the
\* property realises a value, every later read returns that same value, and
\* _RANDOM_SEED changes exactly once, from unset to that value.
C8_LazySeedStability ==
    /\ \A i \in CosmoIds :
          supplied[i] = None =>
              /\ draws[i] <= 1
              /\ draws[i] = 0 => priv_RANDOM_SEED[i] = None
              /\ draws[i] = 1 => ~Falsy(priv_RANDOM_SEED[i])
    /\ (lastAccess.inst # None /\ supplied[lastAccess.inst] = None) =>
          /\ ~Falsy(lastAccess.ret)
          /\ lastAccess.ret = priv_RANDOM_SEED[lastAccess.inst]
          /\ draws[lastAccess.inst] = 1
          /\ lastAccess.before # None => lastAccess.ret = lastAccess.before

C8_Witness ==
    /\ lastAccess.inst # None
    /\ supplied[lastAccess.inst] = None
    /\ lastAccess.before # None
    /\ lastAccess.ret = lastAccess.before
    /\ draws[lastAccess.inst] = 1

\* C9: for every RANDOM_SEED given at construction, 0 included, reading the
\* property returns exactly that value and nothing is drawn.
C9_ExplicitSeedHonoured ==
    \A i \in CosmoIds :
        supplied[i] # None =>
            /\ draws[i] = 0
            /\ lastAccess.inst = i => lastAccess.ret = supplied[i]

(***************************************************************************)
(* Properties of UserParams.DIM (checked under SpecParams).                *)
(***************************************************************************)
\* C10: DIM is the DIM given at construction for every given value, 0
\* included, and 4*HII_DIM when DIM was left unset.
C10_DimResolution ==
    DIM_read # None =>
        IF uparams.DIM_ # None
        THEN DIM_read = uparams.DIM_
        ELSE DIM_read = DimFactor * uparams.HII_DIM

(***************************************************************************)
(* Further properties of initial_conditions (checked under Spec).          *)
(***************************************************************************)
InCall == call.pc # "none"

\* C11: the hires_density buffer of the boxes of a call is allocated, not
\* filled, with exactly DIM^3 elements, and has that length in every later
\* state of the call: after a read hit, after the computation, after the write.
C11_BufferSizeFixedByParameters ==
    InCall =>
        /\ call.hires_len = DIM(call.user) * DIM(call.user) * DIM(call.user)
        /\ (call.nRead = 0 /\ call.nCompute = 0) => ~call.filled

C11_Witness ==
    /\ call.pc = "returned"
    /\ call.nWrite = 1
    /\ call.user = DefaultUser
    /\ call.hires_len = 400 * 400 * 400

\* C12: every boxes object initial_conditions returns, after a read hit and
\* after a computation alike, is filled.
C12_OnlyFilledArtifactsReturned ==
    call.pc = "returned" => call.filled

C12_Witness ==
    /\ call.pc = "returned"
    /\ call.readOutcome = "NotFoundError"
    /\ call.nCompute = 1
    /\ call.filled

\* C14: a call calls boxes.write at most once, and does so if and only if
\* the computation ran and came back in that call and write=True; after a
\* read hit (also with write=True) and whenever write=False the call does
\* not write and the store is as it was when the call began.
C14_WriteOnlyAfterFreshComputation ==
    /\ call.nWriteCall <= 1
    /\ Over =>
          (call.nWriteCall = 1 <=>
              (call.nCompute = 1 /\ ~call.computeFailed /\ call.write))
    /\ (InCall /\ (call.readOutcome = "hit" \/ ~call.write)) =>
          (call.nWriteCall = 0 /\ store = store0)
    /\ store # store0 => call.nWrite = 1

(***************************************************************************)
(* Further properties of CosmoParams.RANDOM_SEED (checked under SpecSeed). *)
(***************************************************************************)
\* C16: when _RANDOM_SEED is unset, the loop of the property is over after
\* one draw (its condition "not self._RANDOM_SEED" is false then) and the
\* value realised and returned is an integer of [1, 1e12), never 0 or None.
C16_SeedRealisationTerminates ==
    (lastAccess.inst # None /\ lastAccess.before = None) =>
        /\ lastAccess.ret \in SeedLow .. (SeedHigh - 1)
        /\ lastAccess.ret # 0 /\ lastAccess.ret # None
        /\ ~Falsy(priv_RANDOM_SEED[lastAccess.inst])
        /\ priv_RANDOM_SEED[lastAccess.inst] = lastAccess.ret
        /\ draws[lastAccess.inst] = 1

C16_Witness ==
    /\ lastAccess.inst # None
    /\ lastAccess.before = None
    /\ lastAccess.ret = SeedHigh - 1
    /\ draws[lastAccess.inst] = 1

(***************************************************************************)
(* The default CosmoParams() of the signature (checked under Spec).        *)
(***************************************************************************)
\* C15: the calls that leave out cosmo_params share the one default
\* instance, and the RANDOM_SEED realised in the first of them is the seed
\* of every later one: once realised, the seed of the default instance
\* never changes.
C15_SharedDefaultSeed ==
    [][~Falsy(priv_RANDOM_SEED[DefaultCosmo]) =>
          priv_RANDOM_SEED'[DefaultCosmo] = priv_RANDOM_SEED[DefaultCosmo]]_vars

====
